---- MODULE Spec2Model ----
(***************************************************************************)
(* Model of structures/vector/vec.rs: Vec<T>, a length-tracking container  *)
(* over a RawVec<T> buffer.  The buffer's memory is a sequence of slots;   *)
(* slot i of the code (0-based) is buf[i + 1].  usize is WordBits wide.    *)
(***************************************************************************)
EXTENDS Integers, Sequences, FiniteSets, TLC

VARIABLES
    zst,      \* whether T is a zero-sized type
    buf,      \* contents of the allocation owned by self.buf (empty for a ZST)
    cap,      \* self.buf.capacity()
    len,      \* self.len
    status,   \* "live", "dropped" (the Vec went out of scope), "aborted" (fatal RawVec failure)
    dropLog,  \* history: the finalisation events of the destruction, in order
    last,     \* history: the last call, its arguments, its result and its outcome
    pre,      \* history: len, cap, buf at entry to the last call
    log,      \* history: the pushes made so far, while the Vec came from new() and saw only pushes
    run,      \* history: the current run of consecutive pushes and the pops that follow it
    trip,     \* history: an insert(i, v) and the remove(i) that immediately follows it
    acc,      \* history: the slots the last call read as a T and the slots it wrote
    own       \* history: how many values were put in, and the values handed back, in order

vars == <<zst, buf, cap, len, status, dropLog, last, pre, log, run, trip, acc, own>>

----------------------------------------------------------------------------
\* Bounds of the model.

\* width of usize in bits
WordBits == 8
\* lengths the general specification explores
MaxLen == 5
\* lengths the specification with set_len explores
MaxUnsafeLen == 3
\* number of distinct element values of a non-zero-sized T
NumVals == 2
\* largest capacity asked of with_capacity / with_capacity_zeroed
MaxInitCap == 1
\* pushes of the growth specification
MaxPushes == 101
\* values put in by the specification that tells the values apart
MaxIds == 4

----------------------------------------------------------------------------
\* Values and memory.

Modulus == 2 ^ WordBits
UMAX == Modulus - 1

\* the only value of the zero-sized type
Unit == 1
\* the all-zero bit pattern of with_capacity_zeroed
Zeroed == 0
\* a slot of allocated memory that was never written
Uninit == -1

Values == 1 .. NumVals
ElemVals == IF zst THEN {Unit} ELSE Values

Max(a, b) == IF a >= b THEN a ELSE b
Min(a, b) == IF a <= b THEN a ELSE b

\* ptr::read(p.add(i)) as the bits stored there; a ZST occupies no memory
SlotAt(b, i) == IF zst THEN Unit ELSE IF i + 1 \in DOMAIN b THEN b[i + 1] ELSE Uninit

\* the values ptr::read(p.add(i)) can produce as a T: reading memory that was
\* never initialised is undefined, any value of T may come out
ReadAs(b, i) == IF SlotAt(b, i) = Uninit THEN ElemVals ELSE {SlotAt(b, i)}

\* ptr::write(p.add(i), v)
PtrWrite(b, i, v) == IF i + 1 \in DOMAIN b THEN [b EXCEPT ![i + 1] = v] ELSE b

\* ptr::copy(p.add(src), p.add(dst), count): memmove of count slots
PtrCopy(b, src, dst, count) ==
    [k \in DOMAIN b |->
        IF k - 1 >= dst /\ k - 1 < dst + count /\ (k - 1 - dst + src + 1) \in DOMAIN b
        THEN b[k - 1 - dst + src + 1]
        ELSE b[k]]

----------------------------------------------------------------------------
\* RawVec<T> (raw_vec.rs).

\* RawVec::NEW / with_capacity / with_capacity_zeroed: the capacity reported
RawCapacity(z, n) == IF z THEN UMAX ELSE n

\* the memory of a fresh allocation of n slots
RawAlloc(z, n, fill) == IF z THEN << >> ELSE [k \in 1 .. n |-> fill]

\* RawVec::reserve(len, additional): the new capacity, or failure
Reserve(z, c, l, additional) ==
    LET required == l + additional
        doubled == Max(2 * c, required)
        grown == IF c = 0 THEN Max(4, doubled) ELSE doubled
    IN  IF required > UMAX THEN [ok |-> FALSE, cap |-> c]
        ELSE IF z \/ required <= c THEN [ok |-> TRUE, cap |-> c]
        ELSE IF grown > UMAX THEN [ok |-> FALSE, cap |-> c]
        ELSE [ok |-> TRUE, cap |-> grown]

\* RawVec::reserve_for_push(len)
ReserveForPush(z, c, l) == Reserve(z, c, l, 1)

\* the allocation after growth to n slots: the old contents, then fresh memory
Realloc(b, n) ==
    IF zst \/ n <= Len(b) THEN b
    ELSE [k \in 1 .. n |-> IF k <= Len(b) THEN b[k] ELSE Uninit]

----------------------------------------------------------------------------
\* Vec<T> (vec.rs): the pieces of the methods.

\* Vec::len / Vec::capacity
VecLen == len
Capacity == cap

\* Deref: slice::from_raw_parts(self.as_ptr(), self.len())
Slice == [i \in 1 .. len |-> SlotAt(buf, i - 1)]

\* faults of the assertion of set_len: one past the capacity passes, the capacity itself fails
SetLenOkLoose(n, c) == n <= c + 1
SetLenOkStrict(n, c) == n < c

\* set_len: assert!(len <= self.capacity())
SetLenOk(n, c) == n <= c

\* faults of the full-buffer test of push: off by one, always, never
PushGrowCondOffByOne(l, c) == l + 1 = c
PushGrowCondAlways(l, c) == l <= c
PushGrowCondNever(l, c) == l > c

\* push: if self.len == self.capacity()
PushGrowCond(l, c) == l = c

\* fault: push writes the first slot instead of the slot past the last
PushBufFront(b, l, value) == PtrWrite(b, 0, value)

\* push: ptr::write(self.as_mut_ptr().add(self.len), value)
PushBuf(b, l, value) == PtrWrite(b, l, value)

\* push: self.len += 1, wrapping at the width of usize as a release build does
\* (a build with overflow checks panics instead); push reaches it only after
\* reserve_for_push succeeded
PushLen(l) == (l + 1) % Modulus

\* fault: pop forgets to decrement the length
PopLenStuck(l) == l

\* pop: self.len -= 1
PopLen(l) == l - 1

\* fault: pop reads the first slot
PopSlotFirst(l) == 0

\* pop: the slot read, given the decremented length
PopSlot(l) == l

\* fault: the bounds check of insert lets index == len + 1 through
InsertInBoundsLoose(index, l) == index <= l + 1

\* insert: assert!(index <= len)
InsertInBounds(index, l) == index <= l

\* faults of the full-buffer test of insert: off by one, never
InsertGrowCondOffByOne(l, c) == l + 1 = c
InsertGrowCondNever(l, c) == l > c

\* insert: if len == self.capacity()
InsertGrowCond(l, c) == l = c

\* fault: insert overwrites slot index without shifting
InsertBufNoShift(b, index, l, element) == PtrWrite(b, index, element)

\* insert: shift [index, len) right by one, write element at index
InsertBuf(b, index, l, element) ==
    PtrWrite(IF index < l THEN PtrCopy(b, index, index + 1, l - index) ELSE b,
             index, element)

\* fault: the bounds check of remove lets index == len through
RemoveInBoundsLoose(index, l) == index <= l

\* remove: assert!(index < len)
RemoveInBounds(index, l) == index < l

\* fault: remove does not close the gap
RemoveBufNone(b, index, l) == b

\* fault: remove shifts one element too few
RemoveBufShort(b, index, l) == PtrCopy(b, index + 1, index, l - index - 2)

\* remove: ptr::copy(p.add(1), p, len - index - 1)
RemoveBuf(b, index, l) == PtrCopy(b, index + 1, index, l - index - 1)

\* swap_remove: assert!(index < len)
SwapRemoveInBounds(index, l) == index < l

\* fault: swap_remove fills the hole with the first element
SwapRemoveBufFirst(b, index, l) == PtrCopy(b, 0, index, 1)

\* swap_remove: ptr::copy(base_ptr.add(len - 1), base_ptr.add(index), 1)
SwapRemoveBuf(b, index, l) == PtrCopy(b, l - 1, index, 1)

\* the slots ptr::copy(p.add(src), p.add(dst), count) writes
CopyDst(dst, count) == dst .. dst + count - 1

\* push: the slot ptr::write writes
PushWrites(l) == {l}

\* pop: the slot ptr::read reads, given the length at entry
PopReads(l) == {PopSlot(PopLen(l))}

\* insert: the slots ptr::copy and ptr::write write
InsertWrites(index, l) ==
    (IF index < l THEN CopyDst(index + 1, l - index) ELSE {}) \cup {index}

\* remove: the slot ptr::read reads, the slots ptr::copy writes
RemoveReads(index) == {index}
RemoveWrites(index, l) == CopyDst(index, l - index - 1)

\* swap_remove: the slot ptr::read reads, the slot ptr::copy writes
SwapRemoveReads(index) == {index}
SwapRemoveWrites(index, l) == CopyDst(index, 1)

\* Deref: the slots of the slice
ViewReads(l) == 0 .. l - 1

\* the elements finalised when a Vec is destroyed: Vec has no Drop impl, the
\* drop glue only drops its fields
DropElems(l) == << >>

\* RawVec's Drop: release the allocation, when there is one
RawVecDrop(z, c) == IF ~z /\ c > 0 THEN << [kind |-> "release", slot |-> 0] >> ELSE << >>

----------------------------------------------------------------------------
\* History bookkeeping.

Entry == [len |-> len, cap |-> cap, buf |-> buf]

Call(op, index, value, ret, outcome, grew) ==
    [op |-> op, index |-> index, value |-> value, ret |-> ret,
     outcome |-> outcome, grew |-> grew]

NoRun == [phase |-> "none", base |-> << >>, pushed |-> << >>, popped |-> << >>]
NoLog == [pure |-> FALSE, pushed |-> << >>]

NoTrip == [phase |-> "none", index |-> 0, value |-> 0, base |-> << >>, cap |-> 0]

RunAfterPush(value) ==
    IF run.phase = "push"
    THEN [run EXCEPT !.pushed = Append(@, value)]
    ELSE [phase |-> "push", base |-> Slice, pushed |-> << value >>, popped |-> << >>]

RunAfterPop(ret) ==
    IF run.phase \in {"push", "pop"} /\ Len(run.popped) < Len(run.pushed)
    THEN [run EXCEPT !.phase = "pop", !.popped = Append(@, ret)]
    ELSE NoRun

NoAccess == [reads |-> {}, writes |-> {}]

\* one more value was put in
Given == [own EXCEPT !.given = @ + 1]

\* a call handed ret (no value, or one value) back to the caller
Returned(ret) == [own EXCEPT !.returned = @ \o ret]

TripAfterRemove(index) ==
    IF trip.phase = "inserted" /\ trip.index = index
    THEN [trip EXCEPT !.phase = "removed"]
    ELSE NoTrip

----------------------------------------------------------------------------
\* Construction.

\* Vec::new()
New(z) ==
    /\ zst = z
    /\ cap = RawCapacity(z, 0)
    /\ buf = RawAlloc(z, 0, Uninit)
    /\ len = 0
    /\ last = Call("new", 0, 0, << >>, "ok", FALSE)
    /\ log = [pure |-> TRUE, pushed |-> << >>]

\* Vec::with_capacity(capacity)
WithCapacity(z, capacity) ==
    /\ zst = z
    /\ cap = RawCapacity(z, capacity)
    /\ buf = RawAlloc(z, capacity, Uninit)
    /\ len = 0
    /\ last = Call("with_capacity", 0, capacity, << >>, "ok", FALSE)
    /\ log = NoLog

\* Vec::with_capacity_zeroed(capacity)
WithCapacityZeroed(z, capacity) ==
    /\ zst = z
    /\ cap = RawCapacity(z, capacity)
    /\ buf = RawAlloc(z, capacity, Zeroed)
    /\ len = 0
    /\ last = Call("with_capacity_zeroed", 0, capacity, << >>, "ok", FALSE)
    /\ log = NoLog

Fresh ==
    /\ status = "live"
    /\ dropLog = << >>
    /\ pre = [len |-> 0, cap |-> cap, buf |-> buf]
    /\ run = NoRun
    /\ trip = NoTrip
    /\ acc = NoAccess
    /\ own = [given |-> 0, returned |-> << >>]

Init ==
    /\ \E z \in BOOLEAN :
          \/ New(z)
          \/ \E n \in 0 .. MaxInitCap : WithCapacity(z, n) \/ WithCapacityZeroed(z, n)
    /\ Fresh

InitNew == (\E z \in BOOLEAN : New(z)) /\ Fresh

----------------------------------------------------------------------------
\* The methods.

\* Vec::push(value): what it does to (buf, capacity, len)
PushEffect(b, c, l, value) ==
    LET grow == PushGrowCond(l, c)
        r == IF grow THEN ReserveForPush(zst, c, l) ELSE [ok |-> TRUE, cap |-> c]
    IN  IF ~r.ok
        THEN [outcome |-> "overflow", grew |-> grow, buf |-> b, cap |-> c, len |-> l,
              writes |-> {}]
        ELSE [outcome |-> "ok", grew |-> grow,
              buf |-> PushBuf(Realloc(b, r.cap), l, value),
              cap |-> r.cap, len |-> PushLen(l),
              writes |-> PushWrites(l)]

\* Vec::insert(index, element): what it does to (buf, capacity, len)
InsertEffect(b, c, l, index, element) ==
    IF ~InsertInBounds(index, l)
    THEN [outcome |-> "panic", grew |-> FALSE, buf |-> b, cap |-> c, len |-> l,
          writes |-> {}]
    ELSE LET grow == InsertGrowCond(l, c)
             r == IF grow THEN Reserve(zst, c, l, 1) ELSE [ok |-> TRUE, cap |-> c]
         IN  IF ~r.ok
             THEN [outcome |-> "overflow", grew |-> grow, buf |-> b, cap |-> c, len |-> l,
                   writes |-> {}]
             ELSE [outcome |-> IF SetLenOk(l + 1, r.cap) THEN "ok" ELSE "panic",
                   grew |-> grow,
                   buf |-> InsertBuf(Realloc(b, r.cap), index, l, element),
                   cap |-> r.cap,
                   len |-> IF SetLenOk(l + 1, r.cap) THEN l + 1 ELSE l,
                   writes |-> InsertWrites(index, l)]

\* Vec::push(value)
PushOp(value) ==
    /\ status = "live"
    /\ pre' = Entry
    /\ trip' = NoTrip
    /\ UNCHANGED <<zst, dropLog>>
    /\ \E e \in {PushEffect(buf, Capacity, len, value)} :
           /\ buf' = e.buf
           /\ cap' = e.cap
           /\ len' = e.len
           /\ status' = IF e.outcome = "overflow" THEN "aborted" ELSE status
           /\ last' = Call("push", 0, value, << >>, e.outcome, e.grew)
           /\ acc' = [reads |-> {}, writes |-> e.writes]
           /\ log' = IF e.outcome = "ok" /\ log.pure
                     THEN [log EXCEPT !.pushed = Append(@, value)]
                     ELSE IF e.outcome = "ok" THEN log ELSE NoLog
           /\ run' = IF e.outcome = "ok" THEN RunAfterPush(value) ELSE NoRun

Push(m) ==
    /\ \E value \in ElemVals : (len < m \/ len + 1 >= UMAX) /\ PushOp(value)
    /\ UNCHANGED own

\* Vec::pop()
PopOp ==
    /\ status = "live"
    /\ pre' = Entry
    /\ UNCHANGED <<zst, dropLog, status, cap, buf>>
    /\ log' = NoLog
    /\ trip' = NoTrip
    /\ IF len = 0
       THEN /\ len' = len
            /\ last' = Call("pop", 0, 0, << >>, "ok", FALSE)
            /\ acc' = NoAccess
            /\ run' = RunAfterPop(<< >>)
       ELSE \E v \in ReadAs(buf, PopSlot(PopLen(len))) :
               /\ len' = PopLen(len)
               /\ last' = Call("pop", 0, 0, << v >>, "ok", FALSE)
               /\ acc' = [reads |-> PopReads(len), writes |-> {}]
               /\ run' = RunAfterPop(<< v >>)

\* fault: pop gives the unused capacity back (shrinks the allocation to len)
PopShrinks ==
    /\ status = "live"
    /\ pre' = Entry
    /\ UNCHANGED <<zst, dropLog, status, own>>
    /\ log' = NoLog
    /\ trip' = NoTrip
    /\ acc' = NoAccess
    /\ len' = IF len = 0 THEN 0 ELSE PopLen(len)
    /\ cap' = IF zst THEN cap ELSE len'
    /\ buf' = IF zst THEN buf ELSE SubSeq(buf, 1, len')
    /\ last' = Call("pop", 0, 0, IF len = 0 THEN << >> ELSE << SlotAt(buf, len - 1) >>,
                    "ok", FALSE)
    /\ run' = NoRun

Pop == PopOp /\ UNCHANGED own

\* Vec::insert(index, element)
InsertOp(index, element) ==
    /\ status = "live"
    /\ pre' = Entry
    /\ UNCHANGED <<zst, dropLog>>
    /\ log' = NoLog
    /\ run' = NoRun
    /\ \E e \in {InsertEffect(buf, Capacity, VecLen, index, element)} :
           /\ buf' = e.buf
           /\ cap' = e.cap
           /\ len' = e.len
           /\ status' = IF e.outcome = "overflow" THEN "aborted" ELSE status
           /\ last' = Call("insert", index, element, << >>, e.outcome, e.grew)
           /\ acc' = [reads |-> {}, writes |-> e.writes]
           /\ trip' = IF e.outcome = "ok"
                      THEN [phase |-> "inserted", index |-> index,
                            value |-> element, base |-> Slice, cap |-> cap]
                      ELSE NoTrip

Insert(m) ==
    /\ \E index \in 0 .. Min(len, m) + 2, element \in ElemVals :
          /\ len < m \/ len + 1 >= UMAX \/ ~InsertInBounds(index, len)
          /\ InsertOp(index, element)
    /\ UNCHANGED own

\* Vec::remove(index)
RemoveOp(index) ==
    /\ status = "live"
    /\ pre' = Entry
    /\ UNCHANGED <<zst, dropLog, status, cap>>
    /\ log' = NoLog
    /\ run' = NoRun
    /\ IF ~RemoveInBounds(index, VecLen)
       THEN /\ UNCHANGED <<buf, len>>
            /\ last' = Call("remove", index, 0, << >>, "panic", FALSE)
            /\ acc' = NoAccess
            /\ trip' = NoTrip
       ELSE \E value \in ReadAs(buf, index) :
               /\ buf' = RemoveBuf(buf, index, len)
               /\ acc' = [reads |-> RemoveReads(index), writes |-> RemoveWrites(index, len)]
               /\ IF SetLenOk(len - 1, Capacity)
                  THEN /\ len' = len - 1
                       /\ last' = Call("remove", index, 0, << value >>, "ok", FALSE)
                       /\ trip' = TripAfterRemove(index)
                  ELSE /\ len' = len
                       /\ last' = Call("remove", index, 0, << >>, "panic", FALSE)
                       /\ trip' = NoTrip

Remove(m) == (\E index \in 0 .. Min(len, m) + 1 : RemoveOp(index)) /\ UNCHANGED own

\* Vec::swap_remove(index)
SwapRemoveOp(index) ==
    /\ status = "live"
    /\ pre' = Entry
    /\ UNCHANGED <<zst, dropLog, status, cap>>
    /\ log' = NoLog
    /\ run' = NoRun
    /\ trip' = NoTrip
    /\ IF ~SwapRemoveInBounds(index, VecLen)
       THEN /\ UNCHANGED <<buf, len>>
            /\ last' = Call("swap_remove", index, 0, << >>, "panic", FALSE)
            /\ acc' = NoAccess
       ELSE \E value \in ReadAs(buf, index) :
               /\ buf' = SwapRemoveBuf(buf, index, len)
               /\ acc' = [reads |-> SwapRemoveReads(index),
                          writes |-> SwapRemoveWrites(index, len)]
               /\ IF SetLenOk(len - 1, Capacity)
                  THEN /\ len' = len - 1
                       /\ last' = Call("swap_remove", index, 0, << value >>, "ok", FALSE)
                  ELSE /\ len' = len
                       /\ last' = Call("swap_remove", index, 0, << >>, "panic", FALSE)

SwapRemove(m) == (\E index \in 0 .. Min(len, m) + 1 : SwapRemoveOp(index)) /\ UNCHANGED own

\* Vec::set_len(len)
SetLenOp(n) ==
    /\ status = "live"
    /\ pre' = Entry
    /\ UNCHANGED <<zst, dropLog, status, cap, buf, own>>
    /\ log' = NoLog
    /\ run' = NoRun
    /\ trip' = NoTrip
    /\ acc' = NoAccess
    /\ IF SetLenOk(n, Capacity)
       THEN /\ len' = n
            /\ last' = Call("set_len", 0, n, << >>, "ok", FALSE)
       ELSE /\ len' = len
            /\ last' = Call("set_len", 0, n, << >>, "panic", FALSE)

SetLen(m) == \E n \in (0 .. m + 1) \cup {UMAX - 1, UMAX} : SetLenOp(n)

\* Deref / DerefMut: the slice view of the live range, read front to back
View ==
    /\ status = "live"
    /\ pre' = Entry
    /\ UNCHANGED <<zst, dropLog, status, cap, buf, len, own>>
    /\ log' = NoLog
    /\ run' = NoRun
    /\ trip' = NoTrip
    /\ last' = Call("deref", 0, 0, Slice, "ok", FALSE)
    /\ acc' = [reads |-> ViewReads(VecLen), writes |-> {}]

\* the Vec goes out of scope: the drop glue of struct Vec { buf, len }
DropVec ==
    /\ status = "live"
    /\ status' = "dropped"
    /\ pre' = Entry
    /\ dropLog' = DropElems(len) \o RawVecDrop(zst, cap)
    /\ last' = Call("drop", 0, 0, << >>, "ok", FALSE)
    /\ log' = NoLog
    /\ run' = NoRun
    /\ trip' = NoTrip
    /\ acc' = NoAccess
    /\ UNCHANGED <<zst, buf, cap, len, own>>

\* the pushes of tests::cap_test and tests::zst_test: push(num) for num = 0, 1, ...
PushNum ==
    /\ len < MaxPushes
    /\ PushOp(IF zst THEN Unit ELSE (len % NumVals) + 1)
    /\ UNCHANGED own

\* the methods called with values that are told apart: the k-th value put in
\* is k (a zero-sized T has one value only)
NextId == IF zst THEN Unit ELSE own.given + 1

OwnPush ==
    /\ own.given < MaxIds
    /\ PushOp(NextId)
    /\ own' = IF last'.outcome = "ok" THEN Given ELSE own

OwnInsert ==
    /\ own.given < MaxIds
    /\ \E index \in 0 .. len + 1 : InsertOp(index, NextId)
    /\ own' = IF last'.outcome = "ok" THEN Given ELSE own

OwnPop == PopOp /\ own' = Returned(last'.ret)

OwnRemove == (\E index \in 0 .. len : RemoveOp(index)) /\ own' = Returned(last'.ret)

OwnSwapRemove == (\E index \in 0 .. len : SwapRemoveOp(index)) /\ own' = Returned(last'.ret)

----------------------------------------------------------------------------
\* Specifications.

\* the public methods, on a Vec built by any constructor
Next ==
    \/ Push(MaxLen) \/ Pop \/ Insert(MaxLen) \/ Remove(MaxLen) \/ SwapRemove(MaxLen)
    \/ View \/ DropVec
Spec == Init /\ [][Next]_vars

\* the public methods and the crate-internal set_len
NextUnsafe ==
    \/ Push(MaxUnsafeLen) \/ Pop \/ Insert(MaxUnsafeLen) \/ Remove(MaxUnsafeLen)
    \/ SwapRemove(MaxUnsafeLen) \/ SetLen(MaxUnsafeLen)
SpecUnsafe == Init /\ [][NextUnsafe]_vars

\* a run of pushes on Vec::new()
NextGrow == PushNum
SpecGrow == InitNew /\ [][NextGrow]_vars

\* the public methods, each value put in told apart from the others
NextOwn == OwnPush \/ OwnPop \/ OwnInsert \/ OwnRemove \/ OwnSwapRemove
SpecOwn == Init /\ [][NextOwn]_vars

----------------------------------------------------------------------------
\* Properties.

\* the smallest of c, 2c, 4c, ... that is >= k
RECURSIVE CapFor(_, _)
CapFor(c, k) == IF c >= k THEN c ELSE CapFor(2 * c, k)

\* C1: after N pushes on a Vec::new() of a non-zero-sized T, len() == N,
\* capacity() >= N and slot i of the slice holds the i-th pushed value.
PushesReadBack ==
    (log.pure /\ ~zst) =>
        /\ VecLen = Len(log.pushed)
        /\ Capacity >= Len(log.pushed)
        /\ DOMAIN Slice = DOMAIN log.pushed
        /\ \A i \in DOMAIN log.pushed : Slice[i] = log.pushed[i]

PushesReadBackWitness ==
    /\ log.pure /\ ~zst
    /\ Len(log.pushed) = MaxLen
    /\ log.pushed[1] # log.pushed[2]
    /\ log.pushed[MaxLen] # log.pushed[1]

\* C2: growth law for a non-zero-sized T: capacity 0 after new(); after k >= 1
\* pushes the capacity is the smallest of 4, 8, 16, ... that is >= k; so 4
\* after one push, 16 (length 16) after 16, 128 (length 100) after 100.
GrowthLaw ==
    (log.pure /\ ~zst) =>
        LET k == Len(log.pushed)
        IN  /\ k = 0 => Capacity = 0
            /\ k >= 1 => Capacity = CapFor(4, k)
            /\ k = 1 => Capacity = 4
            /\ k = 16 => Capacity = 16 /\ VecLen = 16
            /\ k = 100 => Capacity = 128 /\ VecLen = 100

GrowthLawWitness ==
    /\ log.pure /\ ~zst
    /\ Len(log.pushed) = 100
    /\ Capacity = 128

\* C3: for a zero-sized T capacity() is usize::MAX on a fresh Vec and after
\* every push, len() is the number of pushes made, and a push made while
\* len < usize::MAX requests no growth.
ZstLaw ==
    (log.pure /\ zst) =>
        /\ Capacity = UMAX
        /\ VecLen = Len(log.pushed)
        /\ (last.op = "push" /\ pre.len < UMAX) => ~last.grew

ZstLawWitness ==
    /\ log.pure /\ zst
    /\ Len(log.pushed) = 101
    /\ VecLen = 101
    /\ Capacity = UMAX

\* C4: for a zero-sized T, a push made at len == capacity == usize::MAX fails
\* with an overflow and leaves len at usize::MAX; no push makes len wrap.
ZstPushOverflows ==
    (zst /\ last.op = "push") =>
        IF pre.len = UMAX
        THEN last.outcome = "overflow" /\ VecLen = UMAX
        ELSE VecLen = pre.len + 1

ZstPushOverflowsWitness ==
    /\ zst /\ last.op = "push"
    /\ pre.len = UMAX /\ pre.cap = UMAX
    /\ last.outcome = "overflow"

\* C5: insert with index > len, remove and swap_remove with index >= len fail
\* and leave len, capacity and every slot as they were: a failing insert on a
\* full Vec does not grow the buffer.
OutOfBoundsNoMutation ==
    (\/ last.op = "insert" /\ last.index > pre.len
     \/ last.op \in {"remove", "swap_remove"} /\ last.index >= pre.len) =>
        /\ last.outcome = "panic"
        /\ VecLen = pre.len
        /\ Capacity = pre.cap
        /\ buf = pre.buf

OutOfBoundsNoMutationWitness ==
    /\ last.op = "insert" /\ last.index > pre.len
    /\ pre.len = pre.cap /\ pre.len > 0 /\ ~zst
    /\ last.outcome = "panic"

\* C6: when the Vec is destroyed every live element of [0, len) is finalised
\* exactly once, before the allocation is released.
DropFinalizesElements ==
    status = "dropped" =>
        \A i \in 0 .. len - 1 :
            /\ Cardinality({k \in DOMAIN dropLog :
                   dropLog[k].kind = "elem" /\ dropLog[k].slot = i}) = 1
            /\ \A k, r \in DOMAIN dropLog :
                   (dropLog[k].kind = "elem" /\ dropLog[r].kind = "release") => k < r

\* C7: N pushes of v1..vN followed by pops return Some(vN), Some(vN-1), ... in
\* that order; after the n-th pop the length is the one before the last n
\* pushes and the slots below it hold what they held then.
PushPopLifo ==
    run.phase = "pop" =>
        LET m == Len(run.pushed)
            n == Len(run.popped)
        IN  /\ \A j \in 1 .. n : run.popped[j] = << run.pushed[m - j + 1] >>
            /\ VecLen = Len(run.base) + m - n
            /\ \A i \in 1 .. Len(run.base) : Slice[i] = run.base[i]
            /\ \A i \in 1 .. m - n : Slice[Len(run.base) + i] = run.pushed[i]

PushPopLifoWitness ==
    /\ run.phase = "pop" /\ ~zst
    /\ Len(run.pushed) >= 2
    /\ Len(run.popped) = Len(run.pushed)
    /\ run.pushed[1] # run.pushed[2]
    /\ Len(run.base) >= 1
    /\ VecLen = Len(run.base)

\* C8: insert(i, v) followed immediately by remove(i) returns v, leaves the
\* length and every slot of [0, len) as before the insert, and the capacity
\* no smaller than before.
InsertRemoveRoundTrip ==
    trip.phase = "removed" =>
        /\ last.op = "remove" /\ last.outcome = "ok"
        /\ last.ret = << trip.value >>
        /\ VecLen = Len(trip.base)
        /\ \A i \in 1 .. Len(trip.base) : Slice[i] = trip.base[i]
        /\ Capacity >= trip.cap

InsertRemoveRoundTripWitness ==
    /\ trip.phase = "removed" /\ ~zst
    /\ Len(trip.base) >= 2
    /\ trip.index = 1
    /\ trip.base[1] # trip.base[2]
    /\ trip.value # trip.base[2]
    /\ Capacity > trip.cap

\* C9: remove(index) with index < len returns the value of slot index, takes
\* 1 off the length, keeps the slots below index and moves each slot above
\* index down by one.
RemoveKeepsOrder ==
    (last.op = "remove" /\ last.index < pre.len) =>
        /\ last.outcome = "ok"
        /\ last.ret = << SlotAt(pre.buf, last.index) >>
        /\ VecLen = pre.len - 1
        /\ \A j \in 0 .. last.index - 1 : SlotAt(buf, j) = SlotAt(pre.buf, j)
        /\ \A j \in last.index .. pre.len - 2 : SlotAt(buf, j) = SlotAt(pre.buf, j + 1)

RemoveKeepsOrderWitness ==
    /\ last.op = "remove" /\ last.outcome = "ok" /\ ~zst
    /\ last.index = 1 /\ pre.len >= 4
    /\ SlotAt(pre.buf, 1) # SlotAt(pre.buf, 2)
    /\ SlotAt(pre.buf, 2) # SlotAt(pre.buf, 3)

\* C10: swap_remove(index) with index < len returns the value of slot index,
\* takes 1 off the length, puts the former last element in slot index when
\* index < len - 1 and keeps every other slot; at index == len - 1 its result
\* and the state it leaves are those of pop().
SwapRemoveFillsHole ==
    (last.op = "swap_remove" /\ last.index < pre.len) =>
        /\ last.outcome = "ok"
        /\ last.ret = << SlotAt(pre.buf, last.index) >>
        /\ VecLen = pre.len - 1
        /\ last.index < pre.len - 1 =>
               SlotAt(buf, last.index) = SlotAt(pre.buf, pre.len - 1)
        /\ \A j \in 0 .. pre.len - 2 :
               j # last.index => SlotAt(buf, j) = SlotAt(pre.buf, j)
        /\ last.index = pre.len - 1 =>
               /\ VecLen = PopLen(pre.len)
               /\ last.ret = << SlotAt(pre.buf, PopSlot(PopLen(pre.len))) >>
               /\ buf = pre.buf
               /\ Capacity = pre.cap

SwapRemoveFillsHoleWitness ==
    /\ last.op = "swap_remove" /\ last.outcome = "ok" /\ ~zst
    /\ last.index = 1 /\ pre.len >= 3
    /\ SlotAt(pre.buf, 0) # SlotAt(pre.buf, pre.len - 1)
    /\ SlotAt(pre.buf, 1) # SlotAt(pre.buf, pre.len - 1)

\* C11: pop() at len == 0 returns None and leaves len, capacity and the
\* buffer as they were; pop() at len > 0 takes 1 off the length and returns
\* the value of slot len - 1.
PopContract ==
    last.op = "pop" =>
        IF pre.len = 0
        THEN /\ last.ret = << >>
             /\ VecLen = 0
             /\ Capacity = pre.cap
             /\ buf = pre.buf
        ELSE /\ VecLen = pre.len - 1
             /\ last.ret = << SlotAt(pre.buf, pre.len - 1) >>

PopContractWitness ==
    /\ last.op = "pop" /\ ~zst
    /\ pre.len = 0 /\ pre.cap >= 4
    /\ last.ret = << >>
    /\ VecLen = 0

\* C12: len() <= capacity() in every state reached from any constructor by
\* push, pop, insert, remove, swap_remove and set_len, failing calls included.
LenWithinCapacity == VecLen <= Capacity

LenWithinCapacityWitness ==
    /\ last.op = "set_len" /\ last.outcome = "ok" /\ ~zst
    /\ pre.len < pre.cap
    /\ VecLen = Capacity

\* C15: set_len(n) with n > capacity fails and leaves the length as it was;
\* with n <= capacity it sets the length to n; either way the capacity and
\* every slot stay as they were.
SetLenContract ==
    last.op = "set_len" =>
        /\ Capacity = pre.cap
        /\ buf = pre.buf
        /\ IF last.value > pre.cap
           THEN last.outcome = "panic" /\ VecLen = pre.len
           ELSE last.outcome = "ok" /\ VecLen = last.value

SetLenContractWitness ==
    /\ last.op = "set_len" /\ last.outcome = "ok" /\ ~zst
    /\ last.value = pre.cap /\ pre.len < pre.cap
    /\ SlotAt(buf, VecLen - 1) = Uninit

\* C13: with every value put in by push or insert told apart, each one is
\* either live in exactly one slot of [0, len) or was handed back exactly once
\* by pop, remove or swap_remove; nothing else is live or handed back.
ElementsConserved ==
    /\ own.given = VecLen + Len(own.returned)
    /\ ~zst =>
          /\ \A id \in 1 .. own.given :
                Cardinality({i \in 1 .. VecLen : Slice[i] = id})
                  + Cardinality({k \in DOMAIN own.returned : own.returned[k] = id}) = 1
          /\ \A i \in 1 .. VecLen : Slice[i] \in 1 .. own.given
          /\ \A k \in DOMAIN own.returned : own.returned[k] \in 1 .. own.given

ElementsConservedWitness ==
    /\ ~zst /\ own.given = MaxIds
    /\ last.op = "remove" /\ last.outcome = "ok" /\ last.index = 0
    /\ VecLen = 2 /\ Len(own.returned) = 2
    /\ Slice[1] > Slice[2]

\* C14: no call reads as a T a slot at or past the length at its entry, and
\* no call writes or copies to a slot at or past the capacity at that moment
\* (push and insert write after the capacity was ensured).
MemorySafe ==
    /\ \A i \in acc.reads : 0 <= i /\ i < pre.len
    /\ \A i \in acc.writes : 0 <= i /\ i < Capacity

MemorySafeWitness ==
    /\ ~zst /\ last.op = "insert" /\ last.outcome = "ok"
    /\ pre.len = pre.cap /\ pre.len >= 4
    /\ last.index = 0
    /\ pre.len \in acc.writes

\* C16: the capacity never decreases, and pop, remove, swap_remove and
\* set_len leave it exactly as it was.
CapacityNeverShrinks ==
    /\ Capacity >= pre.cap
    /\ last.op \in {"pop", "remove", "swap_remove", "set_len"} => Capacity = pre.cap

CapacityNeverShrinksWitness ==
    /\ ~zst /\ last.op = "pop" /\ last.outcome = "ok"
    /\ pre.len = 1 /\ VecLen = 0
    /\ Capacity = 4 /\ pre.cap = 4

InsertAtEndIsPush ==
    /\ (last.op = "insert" /\ last.index = pre.len) =>
          LET e == PushEffect(pre.buf, pre.cap, pre.len, last.value)
          IN  /\ last.outcome = e.outcome
              /\ VecLen = e.len
              /\ Capacity = e.cap
              /\ \A i \in 0 .. pre.len : SlotAt(buf, i) = SlotAt(e.buf, i)
    /\ last.op = "push" =>
          LET e == InsertEffect(pre.buf, pre.cap, pre.len, pre.len, last.value)
          IN  /\ last.outcome = e.outcome
              /\ VecLen = e.len
              /\ Capacity = e.cap
              /\ \A i \in 0 .. pre.len : SlotAt(buf, i) = SlotAt(e.buf, i)

InsertAtEndIsPushWitness ==
    /\ ~zst /\ last.op = "insert" /\ last.outcome = "ok"
    /\ last.index = pre.len
    /\ pre.len = 0 /\ pre.cap = 0
    /\ Capacity = 4

====
